---- MODULE Spec2Model ----
(***************************************************************************)
(* simplecast: a single-file HTTP server with byte-range support           *)
(* (SingleFileHTTPRequestHandler, ThreadedHTTPServer) and the control      *)
(* loops that follow playback on the cast device (interactive, onetime).   *)
(*                                                                         *)
(* Two specifications share this module:                                   *)
(*   SpecHTTP  the server thread and its clients;                          *)
(*   Spec      the control loop, the disconnect callback and the receiver. *)
(***************************************************************************)
EXTENDS Integers, Sequences, FiniteSets, TLC

VARIABLES
  \* ---- HTTP server (SpecHTTP) ----
  content,    \* bytes of global_single_file
  openable,   \* whether open(global_single_file, 'rb') succeeds
  probe,      \* the request line and Range header the client sends
  conn,       \* per connection: state, request, whether the client has reset it
  backlog,    \* connections waiting in the listening socket's queue
  h,          \* the request handler the server thread is running (c = 0: none)
  resp,       \* per connection: what the handler has written to wfile
  \* ---- control loop (Spec) ----
  mode,       \* args.process: "interactive" or "onetime"
  total,      \* total, the duration of the media in seconds
  pc,         \* where the main thread is in interactive() / onetime()
  xpc,        \* where each thread is in on_exit: main, and cb (the callback)
  keysLeft,   \* keys the user may still press
  char,       \* char, the last result of getch()
  running,    \* the running flag
  registered, \* channel_disconnected has been set to on_exit
  terminal,   \* "cooked", "raw" (after setraw) or "restored" (after tcsetattr)
  start,      \* start, the anchor of the playback clock
  now,        \* time(), in seconds
  delay,      \* delay, as computed at the top of the loop body
  current,    \* current, the position estimate
  status,     \* controller.status: player_is_idle, current_time
  recv,       \* the receiver: phase and play head
  link,       \* the channel to the receiver: "up", or "gone" once it disconnected
  srv,        \* the server thread: serving or stopped, and its shutdown request
  cmd,        \* the last call the main thread made on the receiver
  teardownRuns, \* how many times the body of on_exit has been entered
  joins,      \* how many times httpd.join() has returned
  exc         \* the exception that ended the main thread, "" when none

httpVars == <<content, openable, probe, conn, backlog, h, resp>>

loopVars ==
  <<mode, total, pc, xpc, keysLeft, char, running, registered, terminal,
    start, now, delay, current, status, recv, link, srv, cmd,
    teardownRuns, joins, exc>>

vars == <<httpVars, loopVars>>

----------------------------------------------------------------------------
(* Bounds of the model.                                                    *)

\* Longest served file, in bytes.
MaxFileLen == 3
\* Longest text after "bytes=" in a generated Range header.
MaxRangeChars == 3
\* The copy buffer, 64 * 1024 in the source, scaled down so that a copy of a
\* file of MaxFileLen bytes takes several chunks, the last one partial.
FILE_COPY_BUFFER_SIZE == 2

\* Keys the user presses in one session.
MaxKeys == 2
\* Seconds of wall-clock time that pass in one session.
MaxTime == 2

Conns == {1, 2}

\* i of the seek branch: 30 if char == '[C' else -30.
SeekStep == 30
\* The refresh threshold of "if delay > 1 or char".
RefreshAfter == 1

----------------------------------------------------------------------------
(* Python's None / Optional values.                                        *)

None == <<>>
Some(v) == <<v>>
IsNone(o) == o = <<>>
Val(o) == o[1]

Min(a, b) == IF a < b THEN a ELSE b
Max(a, b) == IF a > b THEN a ELSE b

----------------------------------------------------------------------------
(* Text: header values that are parsed are sequences of characters.        *)

Digits == {"0", "1", "2", "3", "4", "5", "6", "7", "8", "9"}

DigitVal(ch) ==
  CASE ch = "0" -> 0 [] ch = "1" -> 1 [] ch = "2" -> 2 [] ch = "3" -> 3
    [] ch = "4" -> 4 [] ch = "5" -> 5 [] ch = "6" -> 6 [] ch = "7" -> 7
    [] ch = "8" -> 8 [] ch = "9" -> 9

BytesPrefix == <<"b", "y", "t", "e", "s", "=">>

\* int(text) for a text of decimal digits.
RECURSIVE ParseInt(_)
ParseInt(s) ==
  IF s = <<>> THEN 0
  ELSE 10 * ParseInt(SubSeq(s, 1, Len(s) - 1)) + DigitVal(s[Len(s)])

\* Length of the longest run of digits of s that starts at index i (greedy \d+).
RECURSIVE DigitRun(_, _)
DigitRun(s, i) ==
  IF i <= Len(s) /\ s[i] \in Digits THEN 1 + DigitRun(s, i + 1) ELSE 0

StartsWith(s, p) == Len(s) >= Len(p) /\ SubSeq(s, 1, Len(p)) = p

\* re_compile(r"^bytes=(\d+)\-(\d+)?").search(range_header): None, or the two
\* groups (the second None when it did not take part in the match).
RangeMatch(text) ==
  IF ~StartsWith(text, BytesPrefix) THEN None
  ELSE LET i1 == Len(BytesPrefix) + 1
           n1 == DigitRun(text, i1)
           dash == i1 + n1
           n2 == DigitRun(text, dash + 1)
       IN IF n1 = 0 \/ dash > Len(text) \/ text[dash] # "-" THEN None
          ELSE Some([g1 |-> SubSeq(text, i1, dash - 1),
                     g2 |-> IF n2 = 0 THEN None
                            ELSE Some(SubSeq(text, dash + 1, dash + n2))])

\* _GetRange with the pattern's ^ forgotten: "bytes=" is found anywhere.
RECURSIVE GetRangeUnanchored(_)
GetRangeUnanchored(range_header) ==
  IF IsNone(range_header) \/ Val(range_header) = <<>> THEN <<None, None>>
  ELSE LET match == RangeMatch(Val(range_header))
       IN IF IsNone(match) THEN GetRangeUnanchored(Some(Tail(Val(range_header))))
          ELSE IF ~IsNone(Val(match).g2)
               THEN <<Some(ParseInt(Val(match).g1)), Some(ParseInt(Val(Val(match).g2)))>>
               ELSE <<Some(ParseInt(Val(match).g1)), None>>

\* SingleFileHTTPRequestHandler._GetRange; range_header is self.headers["Range"]:
\* None when the request carries no Range header, else Some(text).
GetRange(range_header) ==
  IF IsNone(range_header) \/ Val(range_header) = <<>> THEN <<None, None>>
  ELSE LET match == RangeMatch(Val(range_header))
       IN IF IsNone(match) THEN <<None, None>>
          ELSE IF ~IsNone(Val(match).g2)
               THEN <<Some(ParseInt(Val(match).g1)), Some(ParseInt(Val(Val(match).g2)))>>
               ELSE <<Some(ParseInt(Val(match).g1)), None>>

----------------------------------------------------------------------------
(* Response headers.                                                       *)

\* self.guess_type(global_single_file) and date_time_string(st_mtime): fixed
\* for the session, the file does not change.
CType == "video/mp4"
LastModified == "mtime"

ServedPath == "/file"

\* SingleFileHTTPRequestHandler._SendRegularHeaders; file_size is file_stat[6].
SendRegularHeaders(file_size) ==
  [status |-> 200, message |-> "OK",
   headers |-> << <<"Content-type", CType>>,
                  <<"Content-Length", ToString(file_size)>>,
                  <<"Last-Modified", LastModified>> >>]

\* The clamping with the overflow test forgotten: only a missing end is set.
ClampEndMissingOnly(range_end, file_size) ==
  IF IsNone(range_end) THEN Some(file_size - 1) ELSE range_end

\* The clamping of self.range_end in _SendRangeHeaders.
ClampEnd(range_end, file_size) ==
  IF IsNone(range_end) \/ Val(range_end) >= file_size
  THEN Some(file_size - 1) ELSE range_end

ContentRange(first, last, file_size) ==
  "bytes " \o ToString(first) \o "-" \o ToString(last) \o "/" \o ToString(file_size)

\* SingleFileHTTPRequestHandler._SendRangeHeaders, after the clamping.
SendRangeHeaders(range_start, range_end, file_size) ==
  [status |-> 206, message |-> "Partial Content",
   headers |-> << <<"Content-type", CType>>,
                  <<"Content-Range",
                    ContentRange(Val(range_start), Val(range_end), file_size)>>,
                  <<"Content-Length",
                    ToString(1 + Val(range_end) - Val(range_start))>>,
                  <<"Last-Modified", LastModified>> >>]

\* self.send_error(404, "File not found"): the headers of the error page.
SendError404 ==
  [status |-> 404, message |-> "File not found",
   headers |-> << <<"Connection", "close">>,
                  <<"Content-Type", "text/html;charset=utf-8">>,
                  <<"Content-Length", "errorpage">> >>]

\* send_head without its path test.
PathServedAny(path) == TRUE

\* The path test of send_head: does the request name the served resource?
PathServed(path) == path = ServedPath

\* do_HEAD without its call of _GetRange.
HeadRangeUnparsed(range_header) == <<None, None>>

\* The Range header do_HEAD parses (its call of _GetRange).
HeadRange(range_header) == GetRange(range_header)

\* remaining with the + 1 forgotten.
RangeRemainingExclusive(range_start, range_end) == range_end - range_start

\* remaining, as copy_range computes it before its loop.
RangeRemaining(range_start, range_end) == 1 + range_end - range_start

\* send_head: what it sends, whether it returns an open file, and range_end as
\* _SendRangeHeaders leaves it.
SendHead(path, canOpen, range_start, range_end, file_size) ==
  IF ~PathServed(path) THEN
    [found |-> FALSE, range_end |-> range_end, head |-> SendError404]
  ELSE IF ~canOpen THEN
    [found |-> FALSE, range_end |-> range_end, head |-> SendError404]
  ELSE IF IsNone(range_start) THEN
    [found |-> TRUE, range_end |-> range_end, head |-> SendRegularHeaders(file_size)]
  ELSE
    [found |-> TRUE, range_end |-> ClampEnd(range_end, file_size),
     head |-> SendRangeHeaders(range_start, ClampEnd(range_end, file_size), file_size)]

\* source.read(n) at offset pos of the file.
ReadAt(data, pos, n) == SubSeq(data, pos + 1, Min(pos + n, Len(data)))

----------------------------------------------------------------------------
(* The requests of the model.                                              *)

FileBytes(len) == [i \in 1..len |-> 10 + i]

RangeAlphabet == {"0", "2", "-"}
RangeTexts == UNION {[1..n -> RangeAlphabet] : n \in 0..MaxRangeChars}

\* Range header values: absent, empty, "bytes=" followed by every short text
\* over the alphabet, another unit, and text before the unit.
RangeHeaders ==
  {None, Some(<<>>)}
    \cup {Some(BytesPrefix \o t) : t \in RangeTexts}
    \cup {Some(<<"b", "i", "t", "s", "=", "0", "-", "2">>),
          Some(<<"x">> \o BytesPrefix \o <<"0", "-", "2">>)}

OtherPaths == {"/", "/file/"}

\* The Range headers tried on the requests that are answered 404 whatever
\* the header.
FewRangeHeaders ==
  {None, Some(BytesPrefix \o <<"0", "-", "2">>), Some(BytesPrefix \o <<"0", "-">>)}

Probes ==
  [path : {ServedPath}, range : RangeHeaders]
    \cup [path : OtherPaths, range : FewRangeHeaders]

Methods == {"GET", "HEAD"}

PlainRequest == [path |-> ServedPath, range |-> None]

NoHandler ==
  [c |-> 0, pc |-> "idle", range_start |-> None, range_end |-> None,
   file_open |-> FALSE, pos |-> 0, remaining |-> 0]

NoResponse ==
  [status |-> 0, message |-> "", headers |-> <<>>, body |-> <<>>,
   errorBody |-> FALSE, outcome |-> "none", failedAt |-> ""]

ClosedConn ==
  [st |-> "closed", method |-> "GET", path |-> ServedPath, range |-> None,
   reset |-> FALSE]

InitHTTP ==
  /\ content \in {FileBytes(len) : len \in 0..MaxFileLen}
  /\ openable \in BOOLEAN
  /\ probe \in Probes
  /\ openable \/ probe.range \in FewRangeHeaders
  /\ conn = [c \in Conns |-> ClosedConn]
  /\ backlog = <<>>
  /\ h = NoHandler
  /\ resp = [c \in Conns |-> NoResponse]

----------------------------------------------------------------------------
(* Clients.                                                                *)

\* A client opens the next connection and sends its request: the probe of
\* this session, or the plain GET/HEAD of the served path.
Connect(c, m, req) ==
  /\ conn[c].st = "closed"
  /\ \A d \in Conns : d < c => conn[d].st # "closed"
  /\ conn' = [conn EXCEPT ![c] = [st |-> "queued", method |-> m, path |-> req.path,
                                  range |-> req.range, reset |-> FALSE]]
  /\ backlog' = Append(backlog, c)
  /\ UNCHANGED <<content, openable, probe, h, resp>>
  /\ UNCHANGED loopVars

\* The client goes away while its request is being served (the receiver stops
\* or seeks): writes to its socket raise ConnectionResetError or
\* BrokenPipeError from now on.
ClientReset(c) ==
  /\ conn[c].st = "handling"
  /\ h.pc # "finish"
  /\ ~conn[c].reset
  /\ conn' = [conn EXCEPT ![c].reset = TRUE]
  /\ UNCHANGED <<content, openable, probe, backlog, h, resp>>
  /\ UNCHANGED loopVars

----------------------------------------------------------------------------
(* The server thread: ThreadedHTTPServer.run, serve_forever of an          *)
(* HTTPServer, which handles one request at a time in this thread.         *)

\* serve_forever takes the next connection once the previous request has
\* been finished, and the handler parses the request.
Accept ==
  /\ h.c = 0
  /\ backlog # <<>>
  /\ h' = [NoHandler EXCEPT !.c = Head(backlog), !.pc = "handle"]
  /\ backlog' = Tail(backlog)
  /\ conn' = [conn EXCEPT ![Head(backlog)].st = "handling"]
  /\ UNCHANGED <<content, openable, probe, resp>>
  /\ UNCHANGED loopVars

\* do_HEAD: _GetRange, send_head, close. The headers are flushed by
\* end_headers; the write raises when the client has reset the connection.
do_HEAD ==
  /\ h.pc = "handle"
  /\ conn[h.c].method = "HEAD"
  /\ LET c == h.c
         rng == HeadRange(conn[c].range)
         sh == SendHead(conn[c].path, openable, rng[1], rng[2], Len(content))
     IN /\ h' = [h EXCEPT !.pc = "finish", !.range_start = rng[1],
                          !.range_end = sh.range_end, !.file_open = FALSE]
        /\ resp' = [resp EXCEPT ![c] =
             IF conn[c].reset
             THEN [@ EXCEPT !.outcome = "raised", !.failedAt = "headers"]
             ELSE [@ EXCEPT !.status = sh.head.status, !.message = sh.head.message,
                            !.headers = sh.head.headers, !.outcome = "ok"]]
  /\ UNCHANGED <<content, openable, probe, conn, backlog>>
  /\ UNCHANGED loopVars

\* do_GET up to the body: _GetRange and send_head; a 404 also writes the
\* error page. With a file open it goes on to copyfile or copy_range.
do_GET ==
  /\ h.pc = "handle"
  /\ conn[h.c].method = "GET"
  /\ LET c == h.c
         rng == GetRange(conn[c].range)
         sh == SendHead(conn[c].path, openable, rng[1], rng[2], Len(content))
     IN IF conn[c].reset THEN
          /\ h' = [h EXCEPT !.pc = "finish", !.range_start = rng[1],
                            !.range_end = sh.range_end, !.file_open = FALSE]
          /\ resp' = [resp EXCEPT ![c].outcome = "raised", ![c].failedAt = "headers"]
        ELSE IF ~sh.found THEN
          /\ h' = [h EXCEPT !.pc = "finish", !.range_start = rng[1],
                            !.range_end = sh.range_end]
          /\ resp' = [resp EXCEPT ![c] =
               [@ EXCEPT !.status = sh.head.status, !.message = sh.head.message,
                         !.headers = sh.head.headers, !.errorBody = TRUE,
                         !.outcome = "ok"]]
        ELSE
          /\ h' = [h EXCEPT
               !.pc = IF IsNone(rng[1]) THEN "copyfile" ELSE "copy_range",
               !.range_start = rng[1], !.range_end = sh.range_end,
               !.file_open = TRUE,
               !.pos = IF IsNone(rng[1]) THEN 0 ELSE Val(rng[1]),
               !.remaining = IF IsNone(rng[1]) THEN 0
                             ELSE RangeRemaining(Val(rng[1]), Val(sh.range_end))]
          /\ resp' = [resp EXCEPT ![c] =
               [@ EXCEPT !.status = sh.head.status, !.message = sh.head.message,
                         !.headers = sh.head.headers]]
  /\ UNCHANGED <<content, openable, probe, conn, backlog>>
  /\ UNCHANGED loopVars

\* One round of self.copyfile (shutil.copyfileobj): read a buffer, write it.
\* Nothing catches a failed write: do_GET's finally closes the file and the
\* exception leaves the handler.
copyfile ==
  /\ h.pc = "copyfile"
  /\ LET c == h.c
         read_buffer == ReadAt(content, h.pos, FILE_COPY_BUFFER_SIZE)
     IN IF read_buffer = <<>> THEN
          /\ h' = [h EXCEPT !.pc = "finish", !.file_open = FALSE]
          /\ resp' = [resp EXCEPT ![c].outcome = "ok"]
        ELSE IF conn[c].reset THEN
          /\ h' = [h EXCEPT !.pc = "finish", !.file_open = FALSE]
          /\ resp' = [resp EXCEPT ![c].outcome = "raised", ![c].failedAt = "body"]
        ELSE
          /\ h' = [h EXCEPT !.pos = @ + Len(read_buffer)]
          /\ resp' = [resp EXCEPT ![c].body = @ \o read_buffer]
  /\ UNCHANGED <<content, openable, probe, conn, backlog>>
  /\ UNCHANGED loopVars

\* One round of copy_range's loop.
copy_range ==
  /\ h.pc = "copy_range"
  /\ LET c == h.c
         read_buffer ==
           ReadAt(content, h.pos, Min(FILE_COPY_BUFFER_SIZE, h.remaining))
     IN IF h.remaining <= 0 \/ read_buffer = <<>> THEN
          /\ h' = [h EXCEPT !.pc = "finish", !.file_open = FALSE]
          /\ resp' = [resp EXCEPT ![c].outcome = "ok"]
        ELSE IF conn[c].reset THEN
          /\ h' = [h EXCEPT !.pc = "finish", !.file_open = FALSE]
          /\ resp' = [resp EXCEPT ![c].outcome = "aborted", ![c].failedAt = "body"]
        ELSE
          /\ h' = [h EXCEPT !.pos = @ + Len(read_buffer),
                            !.remaining = @ - Len(read_buffer)]
          /\ resp' = [resp EXCEPT ![c].body = @ \o read_buffer]
  /\ UNCHANGED <<content, openable, probe, conn, backlog>>
  /\ UNCHANGED loopVars

\* The handler is over: shutdown_request (after handle_error when it raised),
\* and serve_forever goes back to waiting.
Finish ==
  /\ h.pc = "finish"
  /\ conn' = [conn EXCEPT ![h.c].st = "done"]
  /\ h' = NoHandler
  /\ UNCHANGED <<content, openable, probe, backlog, resp>>
  /\ UNCHANGED loopVars

NextHTTP ==
  \/ \E c \in Conns, m \in Methods, req \in {probe, PlainRequest} : Connect(c, m, req)
  \/ \E c \in Conns : ClientReset(c)
  \/ Accept
  \/ do_HEAD
  \/ do_GET
  \/ copyfile
  \/ copy_range
  \/ Finish

----------------------------------------------------------------------------
(* The control loops: interactive() and onetime(), the receiver they talk  *)
(* to, the disconnect callback and the server thread they shut down.       *)

NoKey == <<>>
KeyUp == <<"[", "A">>
KeyDown == <<"[", "B">>
KeyRight == <<"[", "C">>
KeyLeft == <<"[", "D">>

\* What getch() returns for the keys of the model: a character, or the two
\* characters read after ESC for an arrow.
Keys ==
  {KeyUp, KeyDown, KeyRight, KeyLeft, <<"p">>, <<" ">>, <<"m">>, <<"q">>,
   <<"n">>}

\* ch in char
In(ch, text) == \E i \in 1..Len(text) : text[i] = ch

\* ('p' in char) or (' ' in char)
IsToggle(text) == In("p", text) \/ In(" ", text)

\* A pause sub-loop that any key ends.
PauseEndsOnAnyKey(text) == text # <<>>

\* The test that ends the pause sub-loop (line 277).
PauseEnds(text) == IsToggle(text)

\* A confirmation that takes every answer for the negative one.
DeclinesAlways(text) == TRUE

\* The negative answer of the confirmation: the test of "if char != 'n'"
\* (line 289) fails for it.
Declines(text) == text = <<"n">>

\* if delay > 1 or char
NeedsRefresh(d, text) == d > RefreshAfter \/ text # <<>>

Durations == {40}

\* min(max(current + i, 0), total)
SeekTarget(cur, i, tot) == Min(Max(cur + i, 0), tot)

\* The names the imports bind at module level: "from pychromecast import
\* get_chromecasts, Chromecast" and the like bind no name pychromecast.
ModuleNames ==
  {"get_chromecasts", "Chromecast", "stop_discovery", "MediaController",
   "NotConnected", "sleep", "time"}

\* What "except pychromecast.error.NotConnected:" does with a NotConnected
\* raised by update_status: evaluating the clause looks the name up.
PollHandler ==
  IF "pychromecast" \in ModuleNames THEN "caught" ELSE "NameError"

\* How a call on the receiver can end. With the channel up it is served, or
\* it raises NotConnected (the receiver is unreachable for a moment); with
\* the channel gone it raises, or the message is lost in silence.
Outcomes == IF link = "up" THEN {"ok", "raise"} ELSE {"raise", "lost"}

\* The receiver's reaction to a command it receives.
Apply(op, arg, r, tot) ==
  CASE op = "pause" -> [r EXCEPT !.phase = IF @ = "playing" THEN "paused" ELSE @]
    [] op = "play" -> [r EXCEPT !.phase = IF @ = "paused" THEN "playing" ELSE @]
    [] op = "seek" -> [r EXCEPT !.pos = arg,
                                !.phase = IF arg >= tot THEN "ended" ELSE @]
    [] op \in {"stop", "quit_app"} -> [r EXCEPT !.phase = "ended"]
    [] OTHER -> r

\* The status the receiver reports.
Snapshot(r) ==
  [player_is_idle |-> r.phase \in {"loading", "ended"}, current_time |-> r.pos]

\* Thread `by` calls op(arg) on the receiver, with outcome `out`. cmd keeps
\* the calls of the main thread; those of the callback are stop and quit_app,
\* in on_exit.
Issue(op, arg, by, out) ==
  /\ cmd' = IF by = "main" THEN [op |-> op, arg |-> arg, flip |-> 1 - cmd.flip]
            ELSE cmd
  /\ recv' = IF out = "ok" THEN Apply(op, arg, recv, total) ELSE recv
  /\ status' = IF out = "ok" /\ op = "update_status" THEN Snapshot(recv) ELSE status

NoCall == UNCHANGED <<cmd, recv, status>>

\* The receiver one second later.
Later(r, tot) ==
  IF r.phase # "playing" THEN r
  ELSE [r EXCEPT !.pos = Min(@ + 1, tot),
                 !.phase = IF r.pos + 1 >= tot THEN "ended" ELSE @]

InitLoop ==
  /\ mode \in {"interactive", "onetime"}
  /\ total \in Durations
  /\ pc = IF mode = "interactive" THEN "connecting" ELSE "o_wait"
  /\ xpc = [main |-> "none", cb |-> "none"]
  /\ keysLeft = MaxKeys
  /\ char = NoKey
  /\ running = FALSE
  /\ registered = FALSE
  /\ terminal = "cooked"
  /\ start = 0
  /\ now = 0
  /\ delay = 0
  /\ current = 0
  /\ recv \in [phase : {"loading", "playing"}, pos : {0}]
  /\ status = Snapshot(recv)
  /\ link = "up"
  /\ srv = [state |-> "serving", shutdownReq |-> FALSE]
  /\ cmd = [op |-> "play_media", arg |-> 0, flip |-> 0]
  /\ teardownRuns = 0
  /\ joins = 0
  /\ exc = ""

\* Where the main thread is once the loop function is over: it has returned,
\* or an exception has left it.
Finished == {"returned", "raised"}

\* Where the main thread waits: sleep(.5), sleep(.1), and the polls of getch().
WaitingPoints == {"connecting_poll", "o_wait_poll", "getch", "paused", "quit_confirm"}

\* getch() returns k: the key the user has pressed, or '' when select finds
\* nothing to read.
Reads(k) ==
  /\ k # NoKey => keysLeft > 0
  /\ char' = k
  /\ keysLeft' = IF k = NoKey THEN keysLeft ELSE keysLeft - 1

\* The main thread dies of an uncaught exception.
Raise(e) == pc' = "raised" /\ exc' = e

\* The main thread goes on to the statement at label.
Goto(label) == pc' = label /\ exc' = exc

----------------------------------------------------------------------------
(* The environment of the loop.                                            *)

\* A second passes. Time is counted in whole seconds, and the seconds pass
\* where the loop waits: in its sleeps and between two polls of the keyboard.
Tick ==
  /\ pc \in WaitingPoints
  /\ now < MaxTime
  /\ now' = now + 1
  /\ recv' = Later(recv, total)
  /\ UNCHANGED <<httpVars, mode, total, pc, xpc, keysLeft, char, running,
                 registered, terminal, start, delay, current, status, link,
                 srv, cmd, teardownRuns, joins, exc>>

\* The receiver starts playing the media it has loaded.
MediaStarts ==
  /\ pc \notin Finished
  /\ recv.phase = "loading"
  /\ recv' = [recv EXCEPT !.phase = "playing"]
  /\ UNCHANGED <<httpVars, mode, total, pc, xpc, keysLeft, char, running,
                 registered, terminal, start, now, delay, current, status,
                 link, srv, cmd, teardownRuns, joins, exc>>

\* The media ends.
MediaEnds ==
  /\ pc \notin Finished
  /\ recv.phase = "playing"
  /\ recv' = [recv EXCEPT !.phase = "ended"]
  /\ UNCHANGED <<httpVars, mode, total, pc, xpc, keysLeft, char, running,
                 registered, terminal, start, now, delay, current, status,
                 link, srv, cmd, teardownRuns, joins, exc>>

\* The receiver disconnects while the loop function runs: the library calls
\* channel_disconnected on its own thread, which is on_exit once the loop has
\* registered it (line 251, line 311).
Disconnect ==
  /\ pc \notin Finished
  /\ link # "gone"
  /\ link' = "gone"
  /\ xpc' = IF registered /\ xpc.cb = "none" THEN [xpc EXCEPT !.cb = "stop"] ELSE xpc
  /\ UNCHANGED <<httpVars, mode, total, pc, keysLeft, char, running,
                 registered, terminal, start, now, delay, current, status,
                 recv, srv, cmd, teardownRuns, joins, exc>>

\* serve_forever sees the shutdown request and returns: the server thread ends.
ServerStop ==
  /\ srv.state = "serving"
  /\ srv.shutdownReq
  /\ srv' = [srv EXCEPT !.state = "stopped"]
  /\ UNCHANGED <<httpVars, mode, total, pc, xpc, keysLeft, char, running,
                 registered, terminal, start, now, delay, current, status,
                 recv, link, cmd, teardownRuns, joins, exc>>

----------------------------------------------------------------------------
(* interactive()                                                           *)

\* Line 200, while controller.status.player_is_idle, and line 203 after it.
ConnectingTest ==
  /\ pc = "connecting"
  /\ IF status.player_is_idle
     THEN pc' = "connecting_poll" /\ start' = start
     ELSE pc' = "setup" /\ start' = now
  /\ UNCHANGED <<httpVars, mode, total, xpc, keysLeft, char, running,
                 registered, terminal, now, delay, current, status, recv,
                 link, srv, cmd, teardownRuns, joins, exc>>

\* Lines 201-202: sleep(.5); controller.update_status().
ConnectingPoll ==
  /\ pc = "connecting_poll"
  /\ \E out \in Outcomes :
       /\ Issue("update_status", 0, "main", out)
       /\ IF out = "raise" THEN Raise("NotConnected") ELSE Goto("connecting")
  /\ UNCHANGED <<httpVars, mode, total, xpc, keysLeft, char, running,
                 registered, terminal, start, now, delay, current, link, srv,
                 teardownRuns, joins>>

\* Lines 235-252: running, raw mode, the callback is registered, and current is
\* read from the status.
Setup ==
  /\ pc = "setup"
  /\ running' = TRUE
  /\ terminal' = "raw"
  /\ registered' = TRUE
  /\ current' = status.current_time
  /\ pc' = "loop"
  /\ UNCHANGED <<httpVars, mode, total, xpc, keysLeft, char, start, now,
                 delay, status, recv, link, srv, cmd, teardownRuns, joins,
                 exc>>

\* Line 254: while not controller.status.player_is_idle and running; line 293
\* when the test fails.
LoopTest ==
  /\ pc = "loop"
  /\ IF ~status.player_is_idle /\ running
     THEN pc' = "getch" /\ xpc' = xpc
     ELSE pc' = "on_exit" /\ xpc' = [xpc EXCEPT !.main = "stop"]
  /\ UNCHANGED <<httpVars, mode, total, keysLeft, char, running, registered,
                 terminal, start, now, delay, current, status, recv, link,
                 srv, cmd, teardownRuns, joins, exc>>

\* Lines 255-257: char = getch(); delay = time() - start; if delay > 1 or char.
Getch(k) ==
  /\ pc = "getch"
  /\ Reads(k)
  /\ delay' = now - start
  /\ pc' = IF NeedsRefresh(now - start, k) THEN "update" ELSE "loop"
  /\ UNCHANGED <<httpVars, mode, total, xpc, running, registered, terminal,
                 start, now, current, status, recv, link, srv, cmd,
                 teardownRuns, joins, exc>>

\* Lines 258-264: the poll in its try/except, then current, start and the
\* progress bar.
Update ==
  /\ pc = "update"
  /\ \E out \in Outcomes :
       /\ Issue("update_status", 0, "main", out)
       /\ IF out = "raise" /\ PollHandler # "caught"
          THEN /\ Raise(PollHandler)
               /\ UNCHANGED <<current, start>>
          ELSE /\ current' = current + delay
               /\ start' = now
               /\ Goto("dispatch")
  /\ UNCHANGED <<httpVars, mode, total, xpc, keysLeft, char, running,
                 registered, terminal, now, delay, link, srv, teardownRuns,
                 joins>>

\* Lines 265-291, the branch taken for char, up to the first wait for another
\* key.
Dispatch ==
  /\ pc = "dispatch"
  /\ IF char = KeyUp THEN
       /\ \E out \in Outcomes :
            /\ Issue("volume_up", 0, "main", out)
            /\ IF out = "raise" THEN Raise("NotConnected") ELSE Goto("tail")
       /\ UNCHANGED <<current, start>>
     ELSE IF char = KeyDown THEN
       /\ \E out \in Outcomes :
            /\ Issue("volume_down", 0, "main", out)
            /\ IF out = "raise" THEN Raise("NotConnected") ELSE Goto("tail")
       /\ UNCHANGED <<current, start>>
     ELSE IF char = KeyLeft \/ char = KeyRight THEN
       LET i == IF char = KeyRight THEN SeekStep ELSE 0 - SeekStep
           target == SeekTarget(current, i, total)
       IN /\ current' = target
          /\ \E out \in Outcomes :
               /\ Issue("seek", target, "main", out)
               /\ IF out = "raise"
                  THEN Raise("NotConnected") /\ start' = start
                  ELSE Goto("tail") /\ start' = now
     ELSE IF IsToggle(char) THEN
       /\ \E out \in Outcomes :
            /\ Issue("pause", 0, "main", out)
            /\ IF out = "raise" THEN Raise("NotConnected") ELSE Goto("paused")
       /\ UNCHANGED <<current, start>>
     ELSE IF In("m", char) THEN
       /\ \E out \in Outcomes :
            /\ Issue("volume_down", 1, "main", out)
            /\ IF out = "raise" THEN Raise("NotConnected") ELSE Goto("tail")
       /\ UNCHANGED <<current, start>>
     ELSE IF In("q", char) THEN
       /\ \E out \in Outcomes :
            /\ Issue("pause", 0, "main", out)
            /\ IF out = "raise" THEN Raise("NotConnected") ELSE Goto("quit_confirm")
       /\ UNCHANGED <<current, start>>
     ELSE
       /\ NoCall
       /\ Goto("tail")
       /\ UNCHANGED <<current, start>>
  /\ UNCHANGED <<httpVars, mode, total, xpc, keysLeft, char, running,
                 registered, terminal, now, delay, link, srv, teardownRuns,
                 joins>>

\* Lines 276-278, one getch() of the pause sub-loop: it ends when the key holds
\* 'p' or ' '.
PausedGetch(k) ==
  /\ pc = "paused"
  /\ Reads(k)
  /\ pc' = IF PauseEnds(k) THEN "resume" ELSE "paused"
  /\ UNCHANGED <<httpVars, mode, total, xpc, running, registered, terminal,
                 start, now, delay, current, status, recv, link, srv, cmd,
                 teardownRuns, joins, exc>>

\* Lines 279-280: controller.play(); start = time().
Resume ==
  /\ pc = "resume"
  /\ \E out \in Outcomes :
       /\ Issue("play", 0, "main", out)
       /\ IF out = "raise"
          THEN Raise("NotConnected") /\ start' = start
          ELSE Goto("tail") /\ start' = now
  /\ UNCHANGED <<httpVars, mode, total, xpc, keysLeft, char, running,
                 registered, terminal, now, delay, current, link, srv,
                 teardownRuns, joins>>

\* Lines 286-290, one getch() of the confirmation: it waits while there is no
\* key, breaks out of the loop (to line 293) unless the key is 'n'.
QuitGetch(k) ==
  /\ pc = "quit_confirm"
  /\ Reads(k)
  /\ IF k = NoKey THEN pc' = "quit_confirm" /\ xpc' = xpc
     ELSE IF ~Declines(k)
          THEN pc' = "on_exit" /\ xpc' = [xpc EXCEPT !.main = "stop"]
          ELSE pc' = "quit_resume" /\ xpc' = xpc
  /\ UNCHANGED <<httpVars, mode, total, running, registered, terminal, start,
                 now, delay, current, status, recv, link, srv, cmd,
                 teardownRuns, joins, exc>>

\* Line 291: controller.play() after the answer 'n'.
QuitResume ==
  /\ pc = "quit_resume"
  /\ \E out \in Outcomes :
       /\ Issue("play", 0, "main", out)
       /\ IF out = "raise" THEN Raise("NotConnected") ELSE Goto("tail")
  /\ UNCHANGED <<httpVars, mode, total, xpc, keysLeft, char, running,
                 registered, terminal, start, now, delay, current, link, srv,
                 teardownRuns, joins>>

\* Line 292: current = caster.media_controller.status.current_time.
LoopTail ==
  /\ pc = "tail"
  /\ current' = status.current_time
  /\ pc' = "loop"
  /\ UNCHANGED <<httpVars, mode, total, xpc, keysLeft, char, running,
                 registered, terminal, start, now, delay, status, recv, link,
                 srv, cmd, teardownRuns, joins, exc>>

----------------------------------------------------------------------------
(* onetime()                                                               *)

\* Line 297: while caster.media_controller.status.player_is_idle.
OWaitTest ==
  /\ pc = "o_wait"
  /\ pc' = IF status.player_is_idle THEN "o_wait_poll" ELSE "o_setup"
  /\ UNCHANGED <<httpVars, mode, total, xpc, keysLeft, char, running,
                 registered, terminal, start, now, delay, current, status,
                 recv, link, srv, cmd, teardownRuns, joins, exc>>

\* Lines 298-299: sleep(.1); update_status().
OWaitPoll ==
  /\ pc = "o_wait_poll"
  /\ \E out \in Outcomes :
       /\ Issue("update_status", 0, "main", out)
       /\ IF out = "raise" THEN Raise("NotConnected") ELSE Goto("o_wait")
  /\ UNCHANGED <<httpVars, mode, total, xpc, keysLeft, char, running,
                 registered, terminal, start, now, delay, current, link, srv,
                 teardownRuns, joins>>

\* Lines 301-311: running, and the callback is registered.
OSetup ==
  /\ pc = "o_setup"
  /\ running' = TRUE
  /\ registered' = TRUE
  /\ pc' = "o_loop"
  /\ UNCHANGED <<httpVars, mode, total, xpc, keysLeft, char, terminal, start,
                 now, delay, current, status, recv, link, srv, cmd,
                 teardownRuns, joins, exc>>

\* Line 312: while not ...player_is_idle and running; line 316 when the test
\* fails.
OLoopTest ==
  /\ pc = "o_loop"
  /\ IF ~status.player_is_idle /\ running
     THEN pc' = "o_sleep" /\ xpc' = xpc
     ELSE pc' = "on_exit" /\ xpc' = [xpc EXCEPT !.main = "stop"]
  /\ UNCHANGED <<httpVars, mode, total, keysLeft, char, running, registered,
                 terminal, start, now, delay, current, status, recv, link,
                 srv, cmd, teardownRuns, joins, exc>>

\* Line 313: sleep(1).
OSleep ==
  /\ pc = "o_sleep"
  /\ now < MaxTime
  /\ now' = now + 1
  /\ recv' = Later(recv, total)
  /\ pc' = "o_poll"
  /\ UNCHANGED <<httpVars, mode, total, xpc, keysLeft, char, running,
                 registered, terminal, start, delay, current, status, link,
                 srv, cmd, teardownRuns, joins, exc>>

\* Line 314: update_status().
OPoll ==
  /\ pc = "o_poll"
  /\ \E out \in Outcomes :
       /\ Issue("update_status", 0, "main", out)
       /\ IF out = "raise" THEN Raise("NotConnected") ELSE Goto("o_loop")
  /\ UNCHANGED <<httpVars, mode, total, xpc, keysLeft, char, running,
                 registered, terminal, start, now, delay, current, link, srv,
                 teardownRuns, joins>>

----------------------------------------------------------------------------
(* on_exit, run by thread t: "main" (the return of the loop function) or   *)
(* "cb" (the disconnect callback). The two definitions, lines 241-249 and  *)
(* 303-309, differ by the tcsetattr of the interactive one.                *)

\* An exception ends on_exit in thread t; in the main thread it ends the loop
\* function, in the callback it is the library's to report.
ExitRaises(t) ==
  /\ xpc' = [xpc EXCEPT ![t] = "failed"]
  /\ IF t = "main" THEN Raise("NotConnected") ELSE UNCHANGED <<pc, exc>>

ExitGoto(t, label) ==
  /\ xpc' = [xpc EXCEPT ![t] = label]
  /\ UNCHANGED <<pc, exc>>

\* What guards the body of on_exit against a second run: nothing.
ExitGuard(t) == TRUE

\* caster.media_controller.stop(), the first statement of the body.
ExitStop(t) ==
  /\ xpc[t] = "stop"
  /\ ExitGuard(t)
  /\ teardownRuns' = teardownRuns + 1
  /\ \E out \in Outcomes :
       /\ Issue("stop", 0, t, out)
       /\ IF out = "raise" THEN ExitRaises(t) ELSE ExitGoto(t, "quit_app")
  /\ UNCHANGED <<httpVars, mode, total, keysLeft, char, running, registered,
                 terminal, start, now, delay, current, link, srv, joins>>

\* caster.quit_app().
ExitQuitApp(t) ==
  /\ xpc[t] = "quit_app"
  /\ \E out \in Outcomes :
       /\ Issue("quit_app", 0, t, out)
       /\ IF out = "raise" THEN ExitRaises(t) ELSE ExitGoto(t, "terminate")
  /\ UNCHANGED <<httpVars, mode, total, keysLeft, char, running, registered,
                 terminal, start, now, delay, current, link, srv,
                 teardownRuns, joins>>

\* httpd.terminate(): shutdown() asks serve_forever to stop, then waits for it.
ExitTerminate(t) ==
  /\ xpc[t] = "terminate"
  /\ srv' = [srv EXCEPT !.shutdownReq = TRUE]
  /\ xpc' = [xpc EXCEPT ![t] = "join"]
  /\ UNCHANGED <<httpVars, mode, total, pc, keysLeft, char, running,
                 registered, terminal, start, now, delay, current, status,
                 recv, link, cmd, teardownRuns, joins, exc>>

\* shutdown() returns once serve_forever has, and httpd.join() once the thread has.
ExitJoin(t) ==
  /\ xpc[t] = "join"
  /\ srv.state = "stopped"
  /\ joins' = joins + 1
  /\ xpc' = [xpc EXCEPT ![t] = "finish"]
  /\ UNCHANGED <<httpVars, mode, total, pc, keysLeft, char, running,
                 registered, terminal, start, now, delay, current, status,
                 recv, link, srv, cmd, teardownRuns, exc>>

\* running = False; the interactive on_exit restores the terminal (tcsetattr);
\* on_exit returns, and with it the loop function when the main thread ran it.
ExitFinish(t) ==
  /\ xpc[t] = "finish"
  /\ running' = FALSE
  /\ terminal' = IF mode = "interactive" THEN "restored" ELSE terminal
  /\ xpc' = [xpc EXCEPT ![t] = "done"]
  /\ pc' = IF t = "main" THEN "returned" ELSE pc
  /\ UNCHANGED <<httpVars, mode, total, keysLeft, char, registered, start,
                 now, delay, current, status, recv, link, srv, cmd,
                 teardownRuns, joins, exc>>

----------------------------------------------------------------------------
(* The two specifications.                                                 *)

Threads == {"main", "cb"}

\* The steps of the main thread that call getch(), which returns k.
KeyedStep(k) == Getch(k) \/ PausedGetch(k) \/ QuitGetch(k)

\* Its other steps.
PlainStep ==
  \/ ConnectingTest \/ ConnectingPoll \/ Setup \/ LoopTest \/ Update
  \/ Dispatch \/ Resume \/ QuitResume \/ LoopTail
  \/ OWaitTest \/ OWaitPoll \/ OSetup \/ OLoopTest \/ OSleep \/ OPoll

MainStep == PlainStep \/ \E k \in Keys \cup {NoKey} : KeyedStep(k)

\* The steps the main thread takes without the user: getch() finds no key.
UnpromptedStep == PlainStep \/ KeyedStep(NoKey)

\* The steps of on_exit in thread t.
ExitStep(t) ==
  \/ ExitStop(t) \/ ExitQuitApp(t) \/ ExitTerminate(t) \/ ExitJoin(t) \/ ExitFinish(t)

EnvStep == Tick \/ MediaStarts \/ MediaEnds \/ Disconnect

NextLoop ==
  \/ MainStep
  \/ \E t \in Threads : ExitStep(t)
  \/ ServerStop
  \/ EnvStep

\* The server as it stands while the loop specification runs, and the loop
\* as it stands while the server specification runs.
HTTPAtRest ==
  /\ content = FileBytes(0)
  /\ openable = TRUE
  /\ probe = PlainRequest
  /\ conn = [c \in Conns |-> ClosedConn]
  /\ backlog = <<>>
  /\ h = NoHandler
  /\ resp = [c \in Conns |-> NoResponse]

LoopAtRest ==
  /\ InitLoop
  /\ mode = "onetime"
  /\ recv.phase = "loading"

Init == InitLoop /\ HTTPAtRest
Next == NextLoop
Spec == Init /\ [][Next]_vars

\* The threads are scheduled fairly: the main thread, the callback's thread
\* and the server thread each take their next step when they have one. The
\* user, the clock and the receiver owe nothing: no key has to be pressed.
FairSpec ==
  /\ Spec
  /\ WF_vars(UnpromptedStep)
  /\ \A t \in Threads : WF_vars(ExitStep(t))
  /\ WF_vars(ServerStop)

InitServer == LoopAtRest /\ InitHTTP
SpecHTTP == InitServer /\ [][NextHTTP]_vars

----------------------------------------------------------------------------
(* Vocabulary of the properties of the HTTP server.                        *)

DigitChar(d) ==
  CASE d = 0 -> "0" [] d = 1 -> "1" [] d = 2 -> "2" [] d = 3 -> "3"
    [] d = 4 -> "4" [] d = 5 -> "5" [] d = 6 -> "6" [] d = 7 -> "7"
    [] d = 8 -> "8" [] d = 9 -> "9"

\* The decimal text of a natural number.
RECURSIVE Dec(_)
Dec(n) == IF n < 10 THEN <<DigitChar(n)>> ELSE Dec(n \div 10) \o <<DigitChar(n % 10)>>

\* The header "Range: bytes=s-e" and the open-ended "Range: bytes=s-".
RangeText(s, e) == Some(BytesPrefix \o Dec(s) \o <<"-">> \o Dec(e))
OpenRangeText(s) == Some(BytesPrefix \o Dec(s) \o <<"-">>)

\* The numbers a generated Range header can spell.
Numbers == {0, 2, 20, 22, 200, 202, 220, 222}

\* The text has the form bytes=<start>-<end>?: "bytes=", one digit or more,
\* a dash (what follows the dash is the optional end).
MatchesRangeForm(text) ==
  \E k \in 1..Len(text) :
    /\ StartsWith(text, BytesPrefix)
    /\ Len(text) >= Len(BytesPrefix) + k + 1
    /\ \A i \in (Len(BytesPrefix) + 1)..(Len(BytesPrefix) + k) : text[i] \in Digits
    /\ text[Len(BytesPrefix) + k + 1] = "-"

\* The value of a response header, None when the header was not sent.
HeaderValue(hs, name) ==
  IF \E i \in 1..Len(hs) : hs[i][1] = name
  THEN Some(hs[CHOOSE i \in 1..Len(hs) : hs[i][1] = name][2])
  ELSE None

\* The handler ran to its end and every write went through.
Completed(c) == resp[c].outcome = "ok"

\* A completed GET of the served file.
ServedGet(c) ==
  /\ Completed(c)
  /\ conn[c].method = "GET"
  /\ conn[c].path = ServedPath
  /\ openable

FileSize == Len(content)

----------------------------------------------------------------------------
(* Properties of the HTTP server, checked under SpecHTTP.                  *)

\* C3: a GET with Range: bytes=start-end, 0 <= start <= end < L, answers 206
\* with Content-Range "bytes start-end/L", Content-Length end-start+1 and
\* exactly the bytes [start..end] of the file.
C3_RangedGetExact ==
  \A c \in Conns : \A s \in 0..MaxFileLen, e \in 0..MaxFileLen :
    (ServedGet(c) /\ s <= e /\ e < FileSize /\ conn[c].range = RangeText(s, e))
      => /\ resp[c].status = 206
         /\ HeaderValue(resp[c].headers, "Content-Range")
              = Some(ContentRange(s, e, FileSize))
         /\ HeaderValue(resp[c].headers, "Content-Length") = Some(ToString(e - s + 1))
         /\ Len(resp[c].body) = e - s + 1
         /\ resp[c].body = SubSeq(content, s + 1, e + 1)

\* A GET of bytes=0-2 of a three-byte file has completed with its three bytes.
C3_Witness ==
  \E c \in Conns :
    /\ ServedGet(c)
    /\ conn[c].range = RangeText(0, 2)
    /\ FileSize = 3
    /\ resp[c].body = content

\* C4: a GET whose Range header is absent, or does not have the form
\* bytes=<start>-<end>?, answers 200 with Content-Length L, no Content-Range,
\* and the whole file.
C4_NoRangeWholeFile ==
  \A c \in Conns :
    (ServedGet(c) /\ (IsNone(conn[c].range) \/ ~MatchesRangeForm(Val(conn[c].range))))
      => /\ resp[c].status = 200
         /\ HeaderValue(resp[c].headers, "Content-Length") = Some(ToString(FileSize))
         /\ HeaderValue(resp[c].headers, "Content-Range") = None
         /\ resp[c].body = content

\* A GET with the malformed header "xbytes=0-2" has been served a whole file of
\* three bytes, and so has a GET with no Range header.
C4_Witness ==
  /\ FileSize = 3
  /\ \E c \in Conns :
       /\ ServedGet(c)
       /\ conn[c].range = Some(<<"x">> \o BytesPrefix \o <<"0", "-", "2">>)
       /\ resp[c].status = 200
  /\ \E c \in Conns : ServedGet(c) /\ IsNone(conn[c].range) /\ resp[c].body = content

\* C5: a ranged GET whose end is omitted or >= L answers 206 with
\* Content-Range "bytes start-(L-1)/L", Content-Length L-start, and the bytes
\* from start to the last byte of the file.
C5_EndClamped ==
  \A c \in Conns : \A s \in Numbers :
    (/\ ServedGet(c)
     /\ \/ conn[c].range = OpenRangeText(s)
        \/ \E e \in Numbers : e >= FileSize /\ conn[c].range = RangeText(s, e))
      => /\ resp[c].status = 206
         /\ HeaderValue(resp[c].headers, "Content-Range")
              = Some(ContentRange(s, FileSize - 1, FileSize))
         /\ HeaderValue(resp[c].headers, "Content-Length") = Some(ToString(FileSize - s))
         /\ resp[c].body = SubSeq(content, s + 1, FileSize)

\* A GET of bytes=0-2 of a two-byte file has completed with both bytes, its
\* end clamped to 1.
C5_Witness ==
  \E c \in Conns :
    /\ ServedGet(c)
    /\ conn[c].range = RangeText(0, 2)
    /\ FileSize = 2
    /\ HeaderValue(resp[c].headers, "Content-Range") = Some("bytes 0-1/2")
    /\ resp[c].body = content

\* C6: a request, GET or HEAD, for a path other than the served one never
\* gets a byte of the file, and its answer is 404 "File not found".
C6_OtherPath404 ==
  \A c \in Conns :
    (conn[c].st # "closed" /\ conn[c].path # ServedPath)
      => /\ resp[c].body = <<>>
         /\ resp[c].outcome \in {"none", "ok", "raised"}
         /\ resp[c].status \in {0, 404}
         /\ Completed(c) => (resp[c].status = 404 /\ resp[c].message = "File not found")

\* A GET of another path with a well-formed Range header has been answered,
\* the file being there to open.
C6_Witness ==
  \E c \in Conns :
    /\ Completed(c)
    /\ conn[c].method = "GET"
    /\ conn[c].path # ServedPath
    /\ conn[c].range = RangeText(0, 2)
    /\ openable /\ FileSize = 3
    /\ resp[c].status = 404

\* C7: a HEAD writes no body, and its status and headers are those of the GET
\* of the same path and Range header.
C7_HeadLikeGet ==
  /\ \A c \in Conns :
       conn[c].method = "HEAD" => (resp[c].body = <<>> /\ ~resp[c].errorBody)
  /\ \A c1 \in Conns, c2 \in Conns :
       (/\ conn[c1].st # "closed" /\ conn[c1].method = "HEAD"
        /\ conn[c2].st # "closed" /\ conn[c2].method = "GET"
        /\ conn[c1].path = conn[c2].path /\ conn[c1].range = conn[c2].range
        /\ Completed(c1) /\ resp[c2].status # 0)
         => /\ resp[c1].status = resp[c2].status
            /\ resp[c1].message = resp[c2].message
            /\ resp[c1].headers = resp[c2].headers

\* A HEAD and a GET of the same open-ended range have both been answered 206.
C7_Witness ==
  \E c1 \in Conns, c2 \in Conns :
    /\ conn[c1].method = "HEAD" /\ conn[c2].method = "GET"
    /\ conn[c1].range = OpenRangeText(0) /\ conn[c2].range = OpenRangeText(0)
    /\ conn[c1].path = ServedPath /\ conn[c2].path = ServedPath
    /\ Completed(c1) /\ Completed(c2)
    /\ resp[c1].status = 206
    /\ resp[c2].body = content /\ FileSize = 3

\* C8: a body write that fails because the client went away never raises out
\* of the handler, for any GET.
C8_BodyWriteErrorCaught ==
  \A c \in Conns :
    conn[c].method = "GET" => ~(resp[c].outcome = "raised" /\ resp[c].failedAt = "body")

\* C9: while a GET is streaming its body, a connection waiting in the queue
\* can be taken by the server.
C9_OverlapAccepted ==
  (h.pc \in {"copyfile", "copy_range"} /\ backlog # <<>>) => ENABLED Accept

----------------------------------------------------------------------------
(* Properties of the control loop, checked under Spec and FairSpec.        *)

\* C1: the body of on_exit runs once per session, whichever of the loop's
\* own termination and the disconnect callback comes first, and the server
\* thread has been joined when the loop function returns.
C1_TeardownOnce ==
  /\ teardownRuns <= 1
  /\ pc = "returned" => (srv.state = "stopped" /\ joins >= 1)

\* C2: once the receiver's disconnect has been delivered to the interactive
\* loop and the callback has run the teardown to its end, the main thread
\* comes to the end of the loop function with no key pressed (by returning;
\* an uncaught exception counts as an end here too).
C2_DisconnectTerminates ==
  [](mode = "interactive" /\ link = "gone" /\ xpc.cb = "done"
       => <>(pc \in Finished))

\* The keys of the pause/play toggle: 'p' and space.
ToggleKeys == {<<"p">>, <<" ">>}

\* The main thread has made a call on the receiver in this step.
Called(op) == cmd'.op = op /\ cmd'.flip # cmd.flip

\* C10: the toggle key seen in Playing issues pause and takes the loop to
\* Paused; there a key that is not the toggle key leaves the loop in Paused
\* and issues nothing; the loop leaves Paused only on the toggle key, and
\* then issues play on its way back to the main loop.
C10_PausedUntilToggle ==
  [][/\ (pc = "dispatch" /\ pc' # "dispatch" /\ char \in ToggleKeys)
          => (Called("pause") /\ pc' \in {"paused", "raised"})
     /\ (pc # "paused" /\ pc' = "paused")
          => (pc = "dispatch" /\ char \in ToggleKeys /\ Called("pause"))
     /\ (pc = "paused" /\ keysLeft' # keysLeft /\ char' \notin ToggleKeys)
          => (pc' = "paused" /\ cmd' = cmd)
     /\ (pc = "paused" /\ pc' = "paused") => cmd' = cmd
     /\ (pc = "paused" /\ pc' # "paused")
          => (pc' = "resume" /\ char' \in ToggleKeys /\ cmd' = cmd)
     /\ (pc = "resume" /\ pc' # "resume")
          => (Called("play") /\ pc' \in {"tail", "raised"})
    ]_vars

\* The loop is in Paused and has just read the mute key there.
C10_Witness == pc = "paused" /\ char = <<"m">> /\ cmd.op = "pause"

\* C11: the quit key seen in Playing issues pause and takes the loop to
\* QuitConfirm; there an answer other than 'n' takes the main thread into
\* on_exit, whose body it begins, and the loop function returns only from the
\* end of on_exit; the answer 'n' issues play and takes the loop back to
\* Playing with no teardown by the main thread.
C11_QuitConfirm ==
  [][/\ (pc = "dispatch" /\ pc' # "dispatch" /\ char = <<"q">>)
          => (Called("pause") /\ pc' \in {"quit_confirm", "raised"})
     /\ (pc # "quit_confirm" /\ pc' = "quit_confirm")
          => (pc = "dispatch" /\ char = <<"q">> /\ Called("pause"))
     /\ (pc = "quit_confirm" /\ keysLeft' = keysLeft) => pc' = "quit_confirm"
     /\ (pc = "quit_confirm" /\ keysLeft' # keysLeft /\ char' # <<"n">>)
          => (pc' = "on_exit" /\ xpc'.main = "stop" /\ cmd' = cmd)
     /\ (pc = "quit_confirm" /\ keysLeft' # keysLeft /\ char' = <<"n">>)
          => (pc' = "quit_resume" /\ xpc'.main = "none" /\ cmd' = cmd)
     /\ (pc = "quit_resume" /\ pc' # "quit_resume")
          => (Called("play") /\ pc' \in {"tail", "raised"} /\ xpc'.main = "none")
     /\ (xpc.main = "stop" /\ xpc'.main # "stop")
          => (Called("stop") /\ teardownRuns' = teardownRuns + 1)
     /\ (pc # "returned" /\ pc' = "returned")
          => (pc = "on_exit" /\ xpc'.main = "done" /\ ~running')
    ]_vars

\* The answer 'n' has been given in QuitConfirm, play has been issued and the
\* loop is back in its main loop, the main thread having run no teardown.
C11_Witness ==
  /\ pc = "tail" /\ char = <<"n">> /\ cmd.op = "play" /\ xpc.main = "none"

\* A poll made in Playing has shown the receiver idle: the status is written
\* by update_status only, and the loop registers its callback on entering
\* Playing, which it does with a status that is not idle.
PolledIdle == registered /\ status.player_is_idle

\* C12: in both variants, once a poll in Playing has shown the receiver idle,
\* the loop function comes to its end with no key pressed (by returning from
\* the teardown; an uncaught exception counts as an end here too).
C12_NaturalEndReturns == [](PolledIdle => <>(pc \in Finished))

\* C13: an arrow-left or arrow-right key sends the receiver the target
\* clamp(estimate +- 30, 0, total), and the estimate the loop carries into its
\* next tick is that target.
C13_SeekEstimate ==
  [][/\ (pc = "dispatch" /\ pc' # "dispatch" /\ char \in {KeyLeft, KeyRight})
          => /\ Called("seek")
             /\ cmd'.arg = Min(Max(current + (IF char = KeyRight THEN 30 ELSE -30), 0),
                               total)
             /\ pc' = "tail" => current' = cmd'.arg
     /\ (pc = "tail" /\ cmd.op = "seek" /\ pc' = "loop") => current' = cmd.arg
    ]_vars

\* C14: a status poll of the main loop, interactive (line 259) or onetime
\* (line 314), never ends the loop function by an exception, and after a poll
\* that raised NotConnected the loop goes on without teardown.
C14_PollFailureTolerated ==
  [][(pc \in {"update", "o_poll"})
        => (pc' # "raised" /\ exc' = "" /\ xpc'.main = "none")
    ]_vars

\* C15: whatever the outcome of stop() and of quit_app(), on_exit goes on to
\* its next statement, towards the shutdown of the server, the join and
\* running = False; no failure of the two calls ends it or leaves it.
C15_TeardownBestEffort ==
  [][\A t \in Threads :
       /\ (xpc[t] = "stop" /\ xpc'[t] # "stop") => xpc'[t] = "quit_app"
       /\ (xpc[t] = "quit_app" /\ xpc'[t] # "quit_app") => xpc'[t] = "terminate"
       /\ (pc = "on_exit" /\ pc' # "on_exit")
            => (pc' = "returned" /\ ~running' /\ srv'.state = "stopped" /\ joins' >= 1)
    ]_vars

\* C16: when the interactive function is over, by return or by exception, the
\* terminal is not in the raw mode the function put it in.
C16_TerminalRestored ==
  (mode = "interactive" /\ pc \in Finished) => terminal # "raw"

\* C17: in the interactive loop, whenever the main thread has issued a status
\* refresh, a seek, a pause or a play and goes on, the clock anchor start is
\* the time of that moment.
C17_AnchorReset ==
  [][(/\ mode = "interactive" /\ registered
      /\ cmd'.flip # cmd.flip
      /\ cmd'.op \in {"update_status", "seek", "pause", "play"}
      /\ pc' # "raised")
        => start' = now'
    ]_vars

\* C18: in the interactive loop with the receiver reachable, the estimate
\* current that follows a status refresh, the one shown by the progress bar of
\* that tick, is the current_time of the status just refreshed.
C18_EstimateAfterRefresh ==
  [][(pc = "update" /\ pc' = "dispatch" /\ link = "up")
        => current' = status'.current_time
    ]_vars

\* C19: the range a 206 response is built from satisfies 0 <= start <= end
\* once parsed and clamped, and the Content-Length of a completed ranged GET
\* is positive and is the number of body bytes it has streamed.
C19_RangeWellFormed ==
  /\ h.pc = "copy_range"
       => (0 <= Val(h.range_start) /\ Val(h.range_start) <= Val(h.range_end))
  /\ \A c \in Conns :
       (ServedGet(c) /\ resp[c].status = 206)
         => /\ Len(resp[c].body) >= 1
            /\ HeaderValue(resp[c].headers, "Content-Length")
                 = Some(ToString(Len(resp[c].body)))

\* C20: once on_exit has run to its end in either thread, the main thread
\* makes no further call on the receiver.
C20_NoCommandAfterTeardown ==
  [][(\E t \in Threads : xpc[t] = "done") => cmd' = cmd]_vars

====
